---- MODULE Spec2Model ----
(***************************************************************************)
(* Model of src/services/chessEngine.ts: the static evaluator, quiescence  *)
(* search, alpha-beta minimax, the root search driver, the difficulty move *)
(* selector and the evaluation reporter, run on the host's event loop.     *)
(*                                                                         *)
(* The rules engine (chess.js) is outside the repository.  It is modelled  *)
(* by its interface on a reduced game: a position holds a board, the side  *)
(* to move, the half-move clock and the `arena`, the squares the pieces    *)
(* move on.  The pieces move by their chess geometry inside the arena      *)
(* (riders are not blocked, a pawn moves and takes one row forward, makes  *)
(* a double step from its start row and takes en passant); legality,       *)
(* check, checkmate, stalemate and the draw rules are derived as chess     *)
(* derives them.  A Chess object is a position plus the stack of positions *)
(* that undo() returns to.                                                 *)
(***************************************************************************)
EXTENDS Integers, Sequences, FiniteSets, TLC

(***************************************************************************)
(* Bounds of the model.                                                    *)
(***************************************************************************)
\* number of things the caller does in one run: requests made, moves played
\* on the live position and moves taken back
MaxCallerSteps == 3
\* nesting below which the model stops following a search that has lost
\* its depth bound (a remaining depth that is negative never reaches 0)
MaxRunaway == 2
\* number of moves from the position a search starts on up to which the model
\* follows the captures of quiescence
MaxPly == 8

(***************************************************************************)
(* Constants of the program.                                               *)
(***************************************************************************)
\* JavaScript's Infinity: compared, passed to Math.max/Math.min and divided
\* by 100, never added to; any number larger than every finite evaluation
\* behaves the same in those operations.
Infinity == 1000000

pieceValues == [p |-> 100, n |-> 320, b |-> 330, r |-> 500, q |-> 900, k |-> 20000]

\* errorRate is held in hundredths, as are the samples of Math.random()
difficultySettings ==
    [beginner     |-> [depth |-> 2, errorRate |-> 80],
     intermediate |-> [depth |-> 3, errorRate |-> 50],
     advanced     |-> [depth |-> 3, errorRate |-> 20],
     master       |-> [depth |-> 4, errorRate |-> 0]]

pawnEvalWhite ==
    << << 0,  0,  0,  0,  0,  0,  0,  0>>,
       <<50, 50, 50, 50, 50, 50, 50, 50>>,
       <<10, 10, 20, 30, 30, 20, 10, 10>>,
       << 5,  5, 10, 27, 27, 10,  5,  5>>,
       << 0,  0,  0, 25, 25,  0,  0,  0>>,
       << 5, -5,-10,  0,  0,-10, -5,  5>>,
       << 5, 10, 10,-25,-25, 10, 10,  5>>,
       << 0,  0,  0,  0,  0,  0,  0,  0>> >>

knightEval ==
    << <<-50,-40,-30,-30,-30,-30,-40,-50>>,
       <<-40,-20,  0,  0,  0,  0,-20,-40>>,
       <<-30,  0, 10, 15, 15, 10,  0,-30>>,
       <<-30,  5, 15, 20, 20, 15,  5,-30>>,
       <<-30,  0, 15, 20, 20, 15,  0,-30>>,
       <<-30,  5, 10, 15, 15, 10,  5,-30>>,
       <<-40,-20,  0,  5,  5,  0,-20,-40>>,
       <<-50,-40,-30,-30,-30,-30,-40,-50>> >>

bishopEvalWhite ==
    << <<-20,-10,-10,-10,-10,-10,-10,-20>>,
       <<-10,  0,  0,  0,  0,  0,  0,-10>>,
       <<-10,  0,  5, 10, 10,  5,  0,-10>>,
       <<-10,  5,  5, 10, 10,  5,  5,-10>>,
       <<-10,  0, 10, 10, 10, 10,  0,-10>>,
       <<-10, 10, 10, 10, 10, 10, 10,-10>>,
       <<-10,  5,  0,  0,  0,  0,  5,-10>>,
       <<-20,-10,-10,-10,-10,-10,-10,-20>> >>

rookEvalWhite ==
    << << 0,  0,  0,  0,  0,  0,  0,  0>>,
       << 5, 10, 10, 10, 10, 10, 10,  5>>,
       <<-5,  0,  0,  0,  0,  0,  0, -5>>,
       <<-5,  0,  0,  0,  0,  0,  0, -5>>,
       <<-5,  0,  0,  0,  0,  0,  0, -5>>,
       <<-5,  0,  0,  0,  0,  0,  0, -5>>,
       <<-5,  0,  0,  0,  0,  0,  0, -5>>,
       << 0,  0,  0,  5,  5,  0,  0,  0>> >>

queenEval ==
    << <<-20,-10,-10, -5, -5,-10,-10,-20>>,
       <<-10,  0,  0,  0,  0,  0,  0,-10>>,
       <<-10,  0,  5,  5,  5,  5,  0,-10>>,
       << -5,  0,  5,  5,  5,  5,  0, -5>>,
       <<  0,  0,  5,  5,  5,  5,  0, -5>>,
       <<-10,  5,  5,  5,  5,  5,  0,-10>>,
       <<-10,  0,  5,  0,  0,  0,  0,-10>>,
       <<-20,-10,-10, -5, -5,-10,-10,-20>> >>

kingEvalWhite ==
    << <<-30,-40,-40,-50,-50,-40,-40,-30>>,
       <<-30,-40,-40,-50,-50,-40,-40,-30>>,
       <<-30,-40,-40,-50,-50,-40,-40,-30>>,
       <<-30,-40,-40,-50,-50,-40,-40,-30>>,
       <<-20,-30,-30,-40,-40,-30,-30,-20>>,
       <<-10,-20,-20,-20,-20,-20,-20,-10>>,
       << 20, 20,  0,  0,  0,  0, 20, 20>>,
       << 20, 30, 10,  0,  0, 10, 30, 20>> >>

\* [...table].reverse(): the rows in the opposite order
reverse(table) == [i \in 1..Len(table) |-> table[Len(table) + 1 - i]]

pawnEvalBlack == reverse(pawnEvalWhite)
bishopEvalBlack == reverse(bishopEvalWhite)
rookEvalBlack == reverse(rookEvalWhite)
kingEvalBlack == reverse(kingEvalWhite)

(***************************************************************************)
(* The rules engine: boards, positions, moves.                             *)
(***************************************************************************)
\* a square is 8 * row + col, row 0 being the eighth rank as in board()
Squares == 0..63
RowOf(sq) == sq \div 8
ColOf(sq) == sq % 8

PieceTypes == {"p", "n", "b", "r", "q", "k"}
Colors == {"w", "b"}
NoPiece == [type |-> "none", color |-> "none"]
None == "none"

\* the en passant square of a position none of whose pawns has just made a
\* double step
NoSquare == -1

Other(color) == IF color = "w" THEN "b" ELSE "w"

\* board()[row][col]: the piece on a square, or null
PieceAt(pos, sq) == IF sq \in DOMAIN pos.board THEN pos.board[sq] ELSE NoPiece

RECURSIVE SortedSeq(_)
\* the members of a finite set of integers in ascending order
SortedSeq(S) ==
    IF S = {} THEN <<>>
    ELSE LET m == CHOOSE x \in S : \A y \in S : x <= y
         IN  <<m>> \o SortedSeq(S \ {m})

RECURSIVE Concat(_)
Concat(seqs) == IF seqs = <<>> THEN <<>> ELSE Head(seqs) \o Concat(Tail(seqs))

\* the squares holding a piece of the colour
Occupied(pos, color) == {sq \in DOMAIN pos.board : pos.board[sq].color = color}

Abs(n) == IF n < 0 THEN -n ELSE n

\* the geometry of the pieces: `piece` standing on `from` may go to `to`
Reaches(piece, from, to) ==
    LET dr == RowOf(to) - RowOf(from)
        dc == ColOf(to) - ColOf(from)
        straight == dr = 0 \/ dc = 0
        diagonal == Abs(dr) = Abs(dc)
    IN  /\ from # to
        /\ CASE piece.type = "k" -> Abs(dr) <= 1 /\ Abs(dc) <= 1
              [] piece.type = "n" -> {Abs(dr), Abs(dc)} = {1, 2}
              [] piece.type = "r" -> straight
              [] piece.type = "b" -> diagonal
              [] piece.type = "q" -> straight \/ diagonal
              [] piece.type = "p" ->
                    dr = (IF piece.color = "w" THEN -1 ELSE 1) /\ Abs(dc) <= 1
              [] OTHER -> FALSE

\* the squares the piece on `from` may go to
Targets(pos, from) ==
    {to \in pos.arena : Reaches(pos.board[from], from, to)}

\* the row the pawns of the colour start on, and the way they go
StartRow(color) == IF color = "w" THEN 6 ELSE 1
Forward(color) == IF color = "w" THEN -8 ELSE 8

\* the square two rows ahead of a pawn on its start row, the way being free
DoubleStep(pos, from) ==
    LET pc == pos.board[from]
        to == from + 2 * Forward(pc.color)
    IN  IF /\ pc.type = "p" /\ RowOf(from) = StartRow(pc.color)
           /\ to \in pos.arena
           /\ PieceAt(pos, from + Forward(pc.color)) = NoPiece
           /\ PieceAt(pos, to) = NoPiece
        THEN {to} ELSE {}

\* a piece of colour `by` could go to the square
Attacked(pos, sq, by) ==
    \E from \in Occupied(pos, by) : sq \in Targets(pos, from)

KingSquares(pos, color) ==
    {sq \in Occupied(pos, color) : pos.board[sq].type = "k"}

\* the king of the colour stands on an attacked square
KingAttacked(pos, color) ==
    \E sq \in KingSquares(pos, color) : Attacked(pos, sq, Other(color))

\* game.move(move) on the position: the piece leaves `from` and arrives on
\* `to` (as the promotion piece if it promotes), whatever stood there is
\* taken, as is the pawn passed by an en passant capture, the turn passes,
\* a double step leaves its en passant square, and the half-move clock
\* restarts on a capture or a pawn move
ApplyMove(pos, m) ==
    LET arrived == [type  |-> IF m.promotion = None THEN m.piece ELSE m.promotion,
                    color |-> m.color]
        passed  == IF "e" \in m.flags THEN {8 * RowOf(m.from) + ColOf(m.to)} ELSE {}
        kept    == (DOMAIN pos.board \ ({m.from} \cup passed)) \cup {m.to}
    IN  [pos EXCEPT
            !.board = [sq \in kept |-> IF sq = m.to THEN arrived ELSE pos.board[sq]],
            !.turn = Other(pos.turn),
            !.ep = IF "b" \in m.flags THEN m.from + Forward(m.color) ELSE NoSquare,
            !.halfmoves = IF m.captured # None \/ m.piece = "p"
                          THEN 0 ELSE pos.halfmoves + 1]

PromotionRow(color) == IF color = "w" THEN 0 ELSE 7

\* the moves of the piece on `from` to `to`, before the test for check: one
\* move, or one per promotion piece for a pawn reaching the last row; the
\* flags are those of chess.js: n for a quiet move, b for the double step of
\* a pawn, c for a capture, e for an en passant capture, p for a promotion
MovesFromTo(pos, from, to) ==
    LET pc       == pos.board[from]
        target   == PieceAt(pos, to)
        passing  == pc.type = "p" /\ to = pos.ep /\ ColOf(to) # ColOf(from)
        double   == pc.type = "p" /\ Abs(RowOf(to) - RowOf(from)) = 2
        captured == IF passing THEN "p"
                    ELSE IF target = NoPiece THEN None ELSE target.type
        base     == [from |-> from, to |-> to, piece |-> pc.type, color |-> pc.color,
                     captured |-> captured, promotion |-> None,
                     flags |-> IF passing THEN {"e"}
                               ELSE IF double THEN {"b"}
                               ELSE IF captured = None THEN {"n"} ELSE {"c"},
                     san |-> <<pc.type, from, to, None>>]
        promo(t) == [base EXCEPT !.promotion = t, !.flags = @ \cup {"p"},
                                 !.san = <<pc.type, from, to, t>>]
    IN  IF target.color = pc.color \/ target.type = "k" THEN <<>>
        ELSE IF pc.type = "p" /\ RowOf(to) = PromotionRow(pc.color)
        THEN <<promo("q"), promo("r"), promo("b"), promo("n")>>
        ELSE <<base>>

\* a move is legal when it does not leave the mover's king attacked
Legal(pos, m) == ~KingAttacked(ApplyMove(pos, m), m.color)

\* the moves of the piece on `from` to each of the targets in turn
MovesOfPiece(pos, from, targets) ==
    Concat([j \in 1..Len(targets) |-> MovesFromTo(pos, from, targets[j])])

\* the moves of the pieces on the squares `froms` in turn
MovesOfPieces(pos, froms) ==
    Concat([i \in 1..Len(froms) |->
               MovesOfPiece(pos, froms[i],
                            SortedSeq(Targets(pos, froms[i]) \cup DoubleStep(pos, froms[i])))])

\* game.moves({verbose: true}): the legal moves in generation order, square
\* by square from a8 to h1 and target by target
Moves(pos) ==
    SelectSeq(MovesOfPieces(pos, SortedSeq(Occupied(pos, pos.turn))),
              LAMBDA m : Legal(pos, m))

(***************************************************************************)
(* The Chess object: the position and the positions undo() returns to.     *)
(***************************************************************************)
\* game.move(move)
Move(game, m) ==
    [pos |-> ApplyMove(game.pos, m), hist |-> Append(game.hist, game.pos)]

\* game.undo(): back to the position before the last move applied
Undo(game) ==
    IF game.hist = <<>> THEN game
    ELSE [pos  |-> game.hist[Len(game.hist)],
          hist |-> SubSeq(game.hist, 1, Len(game.hist) - 1)]

\* game.fen(): the position without the moves that led to it
fen(game) == game.pos

\* new Chess(fen)
Chess(f) == [pos |-> f, hist |-> <<>>]

turn(game) == game.pos.turn

moves(game) == Moves(game.pos)

inCheck(game) == KingAttacked(game.pos, game.pos.turn)

isCheckmate(game) == inCheck(game) /\ moves(game) = <<>>

isStalemate(game) == ~inCheck(game) /\ moves(game) = <<>>

\* bare kings, a single minor piece, or only bishops on squares of one colour
isInsufficientMaterial(game) ==
    LET b       == game.pos.board
        pieces  == DOMAIN b
        ofType(t) == {sq \in pieces : b[sq].type = t}
        bishops == ofType("b")
    IN  \/ Cardinality(pieces) = 2
        \/ /\ Cardinality(pieces) = 3
           /\ Cardinality(bishops) = 1 \/ Cardinality(ofType("n")) = 1
        \/ /\ Cardinality(pieces) = Cardinality(bishops) + 2
           /\ \A s1, s2 \in bishops :
                 (RowOf(s1) + ColOf(s1)) % 2 = (RowOf(s2) + ColOf(s2)) % 2

\* some position of the game has now occurred three times
isThreefoldRepetition(game) ==
    LET played == Append(game.hist, game.pos)
        same(i, j) == /\ played[i].board = played[j].board
                      /\ played[i].turn = played[j].turn
                      /\ played[i].ep = played[j].ep
    IN  \E i \in 1..Len(played) :
            Cardinality({j \in 1..Len(played) : same(i, j)}) >= 3

isDraw(game) ==
    \/ game.pos.halfmoves >= 100
    \/ isStalemate(game)
    \/ isInsufficientMaterial(game)
    \/ isThreefoldRepetition(game)

isGameOver(game) == isCheckmate(game) \/ isStalemate(game) \/ isDraw(game)

Min(a, b) == IF a <= b THEN a ELSE b
Max(a, b) == IF a >= b THEN a ELSE b

(***************************************************************************)
(* Static evaluator.                                                       *)
(***************************************************************************)
getPiecePositionalValue(piece, rowIndex, colIndex) ==
    CASE piece.type = "p" ->
            IF piece.color = "w" THEN pawnEvalWhite[rowIndex + 1][colIndex + 1]
            ELSE pawnEvalBlack[rowIndex + 1][colIndex + 1]
      [] piece.type = "n" -> knightEval[rowIndex + 1][colIndex + 1]
      [] piece.type = "b" ->
            IF piece.color = "w" THEN bishopEvalWhite[rowIndex + 1][colIndex + 1]
            ELSE bishopEvalBlack[rowIndex + 1][colIndex + 1]
      [] piece.type = "r" ->
            IF piece.color = "w" THEN rookEvalWhite[rowIndex + 1][colIndex + 1]
            ELSE rookEvalBlack[rowIndex + 1][colIndex + 1]
      [] piece.type = "q" -> queenEval[rowIndex + 1][colIndex + 1]
      [] piece.type = "k" ->
            IF piece.color = "w" THEN kingEvalWhite[rowIndex + 1][colIndex + 1]
            ELSE kingEvalBlack[rowIndex + 1][colIndex + 1]
      [] OTHER -> 0

\* the term one square adds to totalEvaluation
SquareValue(pos, sq) ==
    LET piece == PieceAt(pos, sq)
    IN  IF piece = NoPiece THEN 0
        ELSE LET materialValue   == pieceValues[piece.type]
                 positionalValue == getPiecePositionalValue(piece, RowOf(sq), ColOf(sq))
                 value           == materialValue + positionalValue
             IN  value * (IF piece.color = "w" THEN 1 ELSE -1)

RECURSIVE TotalEvaluation(_, _)
\* game.board().forEach(row => row.forEach(...)): the sum of the terms of
\* the squares `squares` holds; the squares left out are empty and add 0
TotalEvaluation(pos, squares) ==
    IF squares = <<>> THEN 0
    ELSE SquareValue(pos, Head(squares)) + TotalEvaluation(pos, Tail(squares))

\* evaluateBoard testing for a draw before it tests for checkmate
evaluateBoardDrawFirst(game) ==
    IF isDraw(game) THEN 0
    ELSE IF isCheckmate(game) THEN (IF turn(game) = "b" THEN Infinity ELSE -Infinity)
    ELSE TotalEvaluation(game.pos, SortedSeq(DOMAIN game.pos.board))

\* evaluateBoard giving the mated side's sentinel to the other side
evaluateBoardSwapped(game) ==
    IF isCheckmate(game) THEN (IF turn(game) = "w" THEN Infinity ELSE -Infinity)
    ELSE IF isDraw(game) THEN 0
    ELSE TotalEvaluation(game.pos, SortedSeq(DOMAIN game.pos.board))

evaluateBoard(game) ==
    IF isCheckmate(game) THEN (IF turn(game) = "b" THEN Infinity ELSE -Infinity)
    ELSE IF isDraw(game) THEN 0
    ELSE TotalEvaluation(game.pos, SortedSeq(DOMAIN game.pos.board))

\* getEvaluation without the lower clamp
getEvaluationNoFloor(game) ==
    LET rawEval == evaluateBoard(game)
    IN  Min(10 * 100, rawEval)

\* clamp(rawEval / 100, -10, 10), held in hundredths
getEvaluation(game) ==
    LET rawEval == evaluateBoard(game)
    IN  Max(-10 * 100, Min(10 * 100, rawEval))

(***************************************************************************)
(* Search.  A call returns its value, the Chess object as the call leaves  *)
(* it, and a record of what happened during the call:                      *)
(*   restored  every call so far left the position as it found it          *)
(*   minDepth  the least remaining depth minimax was called with           *)
(*   sideOk    the maximizing flag was White-to-move at every call         *)
(*   applied   the number of moves applied                                 *)
(*   cutoff    quiescence returned from inside its loop                    *)
(*   pruned    minimax broke out of its loop                               *)
(*   chain     the most captures quiescence played one after the other     *)
(*   runaway   the search went on below the nesting the model follows      *)
(*   skipped   quiescence left a legal move that takes a man out of its    *)
(*             loop                                                        *)
(*   quiet     quiescence had a move that takes nothing in its loop        *)
(***************************************************************************)
NoCalls == [restored |-> TRUE, minDepth |-> Infinity, sideOk |-> TRUE,
            applied |-> 0, cutoff |-> FALSE, pruned |-> FALSE, chain |-> 0,
            runaway |-> FALSE, skipped |-> FALSE, quiet |-> FALSE]

Both(g, h) == [restored |-> g.restored /\ h.restored,
               minDepth |-> Min(g.minDepth, h.minDepth),
               sideOk   |-> g.sideOk /\ h.sideOk,
               applied  |-> g.applied + h.applied,
               cutoff   |-> g.cutoff \/ h.cutoff,
               pruned   |-> g.pruned \/ h.pruned,
               chain    |-> Max(g.chain, h.chain),
               runaway  |-> g.runaway \/ h.runaway,
               skipped  |-> g.skipped \/ h.skipped,
               quiet    |-> g.quiet \/ h.quiet]

Applied(g) == [g EXCEPT !.applied = @ + 1]

\* the calls of a turn of the loop of quiescence: those before it, those of
\* the recursive call, and the capture played to make it
Captured(g, h) == Applied(Both(g, [h EXCEPT !.chain = @ + 1]))

Result(value, game, calls) == [value |-> value, game |-> game, calls |-> calls]

\* the call is over: has it left the position as it was at entry?
Return(r, entry, isMaximizingPlayer) ==
    [r EXCEPT !.calls.restored = @ /\ r.game = entry,
              !.calls.sideOk = @ /\ (isMaximizingPlayer <=> turn(entry) = "w")]

RECURSIVE InsertByScore(_, _)
\* `scored` (pairs <<score, move>>, highest score first) with one more pair,
\* placed after the pairs that score at least as much
InsertByScore(scored, pair) ==
    IF scored = <<>> THEN <<pair>>
    ELSE IF Head(scored)[1] >= pair[1]
    THEN <<Head(scored)>> \o InsertByScore(Tail(scored), pair)
    ELSE <<pair>> \o scored

RECURSIVE SortScored(_, _)
SortScored(pairs, n) ==
    IF n = 0 THEN <<>> ELSE InsertByScore(SortScored(pairs, n - 1), pairs[n])

\* Array.prototype.sort with the comparator bScore - aScore: descending by
\* score, moves of equal score staying in their order
SortDescending(pairs) ==
    LET sorted == SortScored(pairs, Len(pairs))
    IN  [i \in 1..Len(sorted) |-> sorted[i][2]]

\* pieceValues[x] || 0
ValueOrZero(type) == IF type \in DOMAIN pieceValues THEN pieceValues[type] ELSE 0

captureScore(m) == ValueOrZero(m.captured) - ValueOrZero(m.piece)

orderScore(m) ==
    (IF "c" \in m.flags THEN 10 * pieceValues[m.captured] - pieceValues[m.piece] ELSE 0)
    + (IF m.promotion # None THEN pieceValues[m.promotion] ELSE 0)

\* the moves paired with the scores the comparator of quiescence gives them
byCaptureScore(seq) == [i \in 1..Len(seq) |-> <<captureScore(seq[i]), seq[i]>>]

\* the moves paired with the scores the comparator of minimax gives them
byOrderScore(seq) == [i \in 1..Len(seq) |-> <<orderScore(seq[i]), seq[i]>>]

\* captureMoves without the filter: every legal move
captureMovesUnfiltered(game) == SortDescending(byCaptureScore(moves(game)))

\* the capture moves of quiescence, in the order it searches them
captureMoves(game) ==
    SortDescending(byCaptureScore(SelectSeq(moves(game), LAMBDA m : "c" \in m.flags)))

\* the moves of minimax after its move ordering
orderedMoves(game) == SortDescending(byOrderScore(moves(game)))

\* the call was made with this remaining depth
AtDepth(depth, r) == [r EXCEPT !.calls.minDepth = Min(@, depth)]

RECURSIVE quiescence(_, _, _, _)
RECURSIVE quiescenceLoop(_, _, _, _, _, _, _)
RECURSIVE minimax(_, _, _, _, _)
RECURSIVE minimaxLoop(_, _, _, _, _, _, _, _, _)

\* quiescenceTurn returning on a cutoff before it has undone the move
quiescenceTurnNoUndo(child, captures, i, alpha, beta, isMaximizingPlayer, calls) ==
    LET after  == Undo(child.game)
        score  == child.value
        seen   == Captured(calls, child.calls)
        cutoff == IF isMaximizingPlayer THEN score >= beta ELSE score <= alpha
    IN  IF cutoff
        THEN Result(IF isMaximizingPlayer THEN beta ELSE alpha, child.game,
                    [seen EXCEPT !.cutoff = TRUE])
        ELSE quiescenceLoop(after, captures, i + 1,
                            IF isMaximizingPlayer THEN Max(alpha, score) ELSE alpha,
                            IF isMaximizingPlayer THEN beta ELSE Min(beta, score),
                            isMaximizingPlayer, seen)

\* the rest of one turn of the loop of quiescence, the recursive call having
\* returned `child`: undo, then cut off or go on with the narrowed window
quiescenceTurn(child, captures, i, alpha, beta, isMaximizingPlayer, calls) ==
    LET after  == Undo(child.game)
        score  == child.value
        seen   == Captured(calls, child.calls)
        cutoff == IF isMaximizingPlayer THEN score >= beta ELSE score <= alpha
    IN  IF cutoff
        THEN Result(IF isMaximizingPlayer THEN beta ELSE alpha, after,
                    [seen EXCEPT !.cutoff = TRUE])
        ELSE quiescenceLoop(after, captures, i + 1,
                            IF isMaximizingPlayer THEN Max(alpha, score) ELSE alpha,
                            IF isMaximizingPlayer THEN beta ELSE Min(beta, score),
                            isMaximizingPlayer, seen)

\* the for loop of quiescence from its i-th capture on
quiescenceLoop(game, captures, i, alpha, beta, isMaximizingPlayer, calls) ==
    IF i > Len(captures) \/ calls.runaway
    THEN Result(IF isMaximizingPlayer THEN alpha ELSE beta, game, calls)
    ELSE quiescenceTurn(quiescence(Move(game, captures[i]), alpha, beta,
                                   ~isMaximizingPlayer),
                        captures, i, alpha, beta, isMaximizingPlayer, calls)

\* the loop of quiescence is about to run over `captures`: are they the legal
\* moves that take a man?
Listed(all, captures) ==
    [NoCalls EXCEPT
        !.skipped = \E n \in 1..Len(all) :
                        /\ all[n].captured # None
                        /\ \A k \in 1..Len(captures) : captures[k] # all[n],
        !.quiet   = \E k \in 1..Len(captures) : captures[k].captured = None]

\* quiescence from the sort of its capture moves on
quiescenceOver(game, captures, alpha, beta, isMaximizingPlayer) ==
    quiescenceLoop(game, captures, 1, alpha, beta, isMaximizingPlayer,
                   Listed(moves(game), captures))

\* quiescence once stand_pat is known
quiescenceFrom(game, stand_pat, alpha, beta, isMaximizingPlayer) ==
    LET cutoff == IF isMaximizingPlayer THEN stand_pat >= beta ELSE stand_pat <= alpha
    IN  IF cutoff
        THEN Result(IF isMaximizingPlayer THEN beta ELSE alpha, game, NoCalls)
        ELSE IF Len(game.hist) > MaxPly
        THEN Result(stand_pat, game, [NoCalls EXCEPT !.runaway = TRUE])
        ELSE quiescenceOver(game, captureMoves(game),
                            IF isMaximizingPlayer THEN Max(alpha, stand_pat) ELSE alpha,
                            IF isMaximizingPlayer THEN beta ELSE Min(beta, stand_pat),
                            isMaximizingPlayer)

quiescence(game, alpha, beta, isMaximizingPlayer) ==
    Return(quiescenceFrom(game, evaluateBoard(game), alpha, beta, isMaximizingPlayer),
           game, isMaximizingPlayer)

\* minimaxTurn narrowing the window from both sides whoever is to move, so
\* that it breaks where a better move may follow
minimaxTurnBothSides(child, ordered, i, depth, alpha, beta, isMaximizingPlayer, best, calls) ==
    LET after == Undo(child.game)
        currentEval == child.value
        seen  == Applied(Both(calls, child.calls))
        newBest  == IF isMaximizingPlayer THEN Max(best, currentEval)
                    ELSE Min(best, currentEval)
        newAlpha == Max(alpha, currentEval)
        newBeta  == Min(beta, currentEval)
    IN  IF newBeta <= newAlpha
        THEN Result(newBest, after, [seen EXCEPT !.pruned = TRUE])
        ELSE minimaxLoop(after, ordered, i + 1, depth, newAlpha, newBeta,
                         isMaximizingPlayer, newBest, seen)

\* the rest of one turn of the loop of minimax, the recursive call having
\* returned `child`: undo, take the max or min, narrow the window, break when
\* beta <= alpha
minimaxTurn(child, ordered, i, depth, alpha, beta, isMaximizingPlayer, best, calls) ==
    LET after == Undo(child.game)
        currentEval == child.value
        seen  == Applied(Both(calls, child.calls))
        newBest  == IF isMaximizingPlayer THEN Max(best, currentEval)
                    ELSE Min(best, currentEval)
        newAlpha == IF isMaximizingPlayer THEN Max(alpha, currentEval) ELSE alpha
        newBeta  == IF isMaximizingPlayer THEN beta ELSE Min(beta, currentEval)
    IN  IF newBeta <= newAlpha
        THEN Result(newBest, after, [seen EXCEPT !.pruned = TRUE])
        ELSE minimaxLoop(after, ordered, i + 1, depth, newAlpha, newBeta,
                         isMaximizingPlayer, newBest, seen)

\* the for loop of minimax from its i-th move on; best is maxEval or minEval
minimaxLoop(game, ordered, i, depth, alpha, beta, isMaximizingPlayer, best, calls) ==
    IF i > Len(ordered) \/ calls.runaway
    THEN Result(best, game, calls)
    ELSE minimaxTurn(minimax(Move(game, ordered[i]), depth - 1, alpha, beta,
                             ~isMaximizingPlayer),
                     ordered, i, depth, alpha, beta, isMaximizingPlayer, best, calls)

minimaxBody(game, depth, alpha, beta, isMaximizingPlayer) ==
    IF depth = 0 \/ isGameOver(game)
    THEN AtDepth(depth, quiescence(game, alpha, beta, isMaximizingPlayer))
    ELSE IF -depth > MaxRunaway
    THEN Result(0, game, [NoCalls EXCEPT !.minDepth = depth, !.runaway = TRUE])
    ELSE minimaxLoop(game, orderedMoves(game), 1, depth, alpha, beta,
                     isMaximizingPlayer,
                     IF isMaximizingPlayer THEN -Infinity ELSE Infinity,
                     [NoCalls EXCEPT !.minDepth = depth])

minimax(game, depth, alpha, beta, isMaximizingPlayer) ==
    Return(minimaxBody(game, depth, alpha, beta, isMaximizingPlayer),
           game, isMaximizingPlayer)

(***************************************************************************)
(* The host: one thread, a queue of timer callbacks (tasks) and a queue of *)
(* promise reactions (microtasks).  A task runs to its end before the next *)
(* one starts, and the microtasks are run before the next task.            *)
(***************************************************************************)
VARIABLES
    game,        \* the caller's live Chess object
    requests,    \* the requests made so far, in the order they were made
    timers,      \* setTimeout callbacks waiting to run: request numbers
    microtasks,  \* promise reactions waiting to run: request numbers
    running,     \* the request whose deferred search is on the stack, or 0
    caller,      \* what the caller may still do, and with which inputs
    display      \* what the evaluator last returned to the caller

vars == <<game, requests, timers, microtasks, running, caller, display>>

Null == [null |-> TRUE]

Pending == [state |-> "pending", value |-> Null]
Resolved(v) == [state |-> "resolved", value |-> v]
Rejected == [state |-> "rejected", value |-> Null]

\* Math.random() in hundredths: a number in [0, 1)
RandomSamples == {0, 50, 99}

\* a request as findBestMoveForAnalysis leaves it: nothing read, the search
\* deferred.  `askedOn` remembers the position the request was made on; the
\* program keeps no such copy.
NewRequest(kind, depth, difficulty, askedOn) ==
    [kind          |-> kind,
     depth         |-> depth,
     difficulty    |-> difficulty,
     pc            |-> "scheduled",
     reads         |-> 0,
     newGameMoves  |-> <<>>,
     i             |-> 0,
     isMaximizing  |-> FALSE,
     bestValue     |-> 0,
     bestMoveFound |-> Null,
     boardValues   |-> <<>>,
     calls         |-> NoCalls,
     searchedOn    |-> Null,
     analysis      |-> Pending,
     promise       |-> Pending,
     askedOn       |-> askedOn]

\* findBestMoveForAnalysis(game, depth), called by the caller: the promise is
\* made and the search is handed to setTimeout
RequestAnalysis ==
    /\ running = 0 /\ microtasks = <<>>
    /\ caller.steps > 0
    /\ \E depth \in caller.depths :
          requests' = Append(requests, NewRequest("analysis", depth, None, fen(game)))
    /\ timers' = Append(timers, Len(requests) + 1)
    /\ caller' = [caller EXCEPT !.steps = @ - 1]
    /\ UNCHANGED <<game, microtasks, running, display>>

\* RequestComputer falling back to the settings of "beginner" for a name the
\* table does not hold
RequestComputerDefaulting ==
    /\ running = 0 /\ microtasks = <<>>
    /\ caller.steps > 0
    /\ \E difficulty \in caller.difficulties :
          /\ requests' = Append(requests,
                 NewRequest("computer",
                            IF difficulty \in DOMAIN difficultySettings
                            THEN difficultySettings[difficulty].depth
                            ELSE difficultySettings["beginner"].depth,
                            difficulty, fen(game)))
          /\ timers' = Append(timers, Len(requests) + 1)
    /\ caller' = [caller EXCEPT !.steps = @ - 1]
    /\ UNCHANGED <<game, microtasks, running, display>>

\* findComputerMove(game, difficulty), called by the caller: the settings are
\* looked up and the root search is requested; a name the table does not hold
\* gives undefined settings, and reading their depth throws in the promise's
\* executor, which rejects the promise
RequestComputer ==
    /\ running = 0 /\ microtasks = <<>>
    /\ caller.steps > 0
    /\ \E difficulty \in caller.difficulties :
          IF difficulty \in DOMAIN difficultySettings
          THEN /\ requests' = Append(requests,
                      NewRequest("computer", difficultySettings[difficulty].depth,
                                 difficulty, fen(game)))
               /\ timers' = Append(timers, Len(requests) + 1)
          ELSE /\ requests' = Append(requests,
                      [NewRequest("computer", 0, difficulty, fen(game))
                          EXCEPT !.pc = "failed", !.promise = Rejected])
               /\ timers' = timers
    /\ caller' = [caller EXCEPT !.steps = @ - 1]
    /\ UNCHANGED <<game, microtasks, running, display>>

\* the caller plays a move on the live position
CallerMove ==
    /\ running = 0 /\ microtasks = <<>>
    /\ caller.steps > 0
    /\ \E n \in 1..Len(moves(game)) : game' = Move(game, moves(game)[n])
    /\ caller' = [caller EXCEPT !.steps = @ - 1]
    /\ UNCHANGED <<requests, timers, microtasks, running, display>>

\* the caller takes its last move back
CallerUndo ==
    /\ running = 0 /\ microtasks = <<>>
    /\ caller.steps > 0
    /\ game.hist # <<>>
    /\ game' = Undo(game)
    /\ caller' = [caller EXCEPT !.steps = @ - 1]
    /\ UNCHANGED <<requests, timers, microtasks, running, display>>

\* resolve(value) of the promise of findBestMoveForAnalysis; findComputerMove
\* has a reaction waiting on it
ResolveAnalysis(id, r, value) ==
    /\ requests' = [requests EXCEPT ![id] =
          [r EXCEPT !.pc = "done",
                    !.analysis = Resolved(value),
                    !.promise = IF r.kind = "analysis" THEN Resolved(value) ELSE @]]
    /\ microtasks' = IF r.kind = "computer" THEN Append(microtasks, id) ELSE microtasks
    /\ running' = 0

\* StartSearch taking a single legal move for none
StartSearchOffByOne(id, r, newGameMoves) ==
    IF Len(newGameMoves) <= 1
    THEN ResolveAnalysis(id, [r EXCEPT !.reads = @ + 1, !.searchedOn = fen(game)], Null)
    ELSE /\ requests' = [requests EXCEPT ![id] =
               [r EXCEPT !.pc = "searching",
                         !.reads = @ + 1,
                         !.searchedOn = fen(game),
                         !.newGameMoves = newGameMoves,
                         !.i = 1,
                         !.bestMoveFound = newGameMoves[1],
                         !.isMaximizing = (turn(game) = "w"),
                         !.bestValue = IF turn(game) = "w" THEN -Infinity ELSE Infinity]]
         /\ running' = id
         /\ microtasks' = microtasks

\* StartSearch giving the thread back once it has read the root moves, the
\* loop over them left for later
StartSearchYielding(id, r, newGameMoves) ==
    IF newGameMoves = <<>>
    THEN ResolveAnalysis(id, [r EXCEPT !.reads = @ + 1, !.searchedOn = fen(game)], Null)
    ELSE /\ requests' = [requests EXCEPT ![id] =
               [r EXCEPT !.pc = "searching",
                         !.reads = @ + 1,
                         !.searchedOn = fen(game),
                         !.newGameMoves = newGameMoves,
                         !.i = 1,
                         !.bestMoveFound = newGameMoves[1],
                         !.isMaximizing = (turn(game) = "w"),
                         !.bestValue = IF turn(game) = "w" THEN -Infinity ELSE Infinity]]
         /\ running' = 0
         /\ microtasks' = microtasks

\* the setTimeout callback, the root moves having been read: with none the
\* promise is resolved with null, otherwise the loop over them is entered
StartSearch(id, r, newGameMoves) ==
    IF newGameMoves = <<>>
    THEN ResolveAnalysis(id, [r EXCEPT !.reads = @ + 1, !.searchedOn = fen(game)], Null)
    ELSE /\ requests' = [requests EXCEPT ![id] =
               [r EXCEPT !.pc = "searching",
                         !.reads = @ + 1,
                         !.searchedOn = fen(game),
                         !.newGameMoves = newGameMoves,
                         !.i = 1,
                         !.bestMoveFound = newGameMoves[1],
                         !.isMaximizing = (turn(game) = "w"),
                         !.bestValue = IF turn(game) = "w" THEN -Infinity ELSE Infinity]]
         /\ running' = id
         /\ microtasks' = microtasks

\* the setTimeout callback starts
TimerFire ==
    /\ running = 0 /\ microtasks = <<>>
    /\ timers # <<>>
    /\ StartSearch(Head(timers), requests[Head(timers)], moves(game))
    /\ timers' = Tail(timers)
    /\ UNCHANGED <<game, caller, display>>

\* RootTurn replacing the choice by a move that is as good
RootTurnNotStrict(id, r, move, searched) ==
    LET boardValue == searched.value
        better     == IF r.isMaximizing THEN boardValue >= r.bestValue
                      ELSE boardValue <= r.bestValue
    IN  /\ requests' = [requests EXCEPT ![id] =
            [r EXCEPT !.reads = @ + 1,
                      !.i = @ + 1,
                      !.pc = IF searched.calls.runaway THEN "runaway" ELSE @,
                      !.bestValue = IF better THEN boardValue ELSE @,
                      !.bestMoveFound = IF better THEN move ELSE @,
                      !.boardValues = Append(@, boardValue),
                      !.calls = Both(@, searched.calls)]]
        /\ game' = searched.live

\* the rest of one turn of the loop over the root moves, minimax having
\* returned `searched` for `move`
RootTurn(id, r, move, searched) ==
    LET boardValue == searched.value
        better     == IF r.isMaximizing THEN boardValue > r.bestValue
                      ELSE boardValue < r.bestValue
    IN  /\ requests' = [requests EXCEPT ![id] =
            [r EXCEPT !.reads = @ + 1,
                      !.i = @ + 1,
                      !.pc = IF searched.calls.runaway THEN "runaway" ELSE @,
                      !.bestValue = IF better THEN boardValue ELSE @,
                      !.bestMoveFound = IF better THEN move ELSE @,
                      !.boardValues = Append(@, boardValue),
                      !.calls = Both(@, searched.calls)]]
        /\ game' = searched.live

\* const gameCopy = game: the live object under a second name
gameCopyAliased(live) == [game |-> live, shared |-> TRUE]

\* new Chess(game.fen()): an object of its own that holds the live position
\* without the moves that led to it; `shared` tells whether what is done to
\* it is done to the live object
gameCopy(live) == [game |-> Chess(fen(live)), shared |-> FALSE]

\* what minimax returned for the root move, with the live object as the
\* search on the copy leaves it
withLive(searched, copy, live) ==
    [value |-> searched.value, game |-> searched.game, calls |-> searched.calls,
     live  |-> IF copy.shared THEN searched.game ELSE live]

\* the value minimax gives a root move: the move is applied to a copy made
\* from the live position's FEN, and the copy is searched
\* searchRootMove handing the root's own flag down
searchRootMoveSameSide(live, move, depth, isMaximizing) ==
    withLive(minimax(Move(gameCopy(live).game, move), depth - 1, -Infinity, Infinity,
                     isMaximizing),
             gameCopy(live), live)

searchRootMove(live, move, depth, isMaximizing) ==
    withLive(minimax(Move(gameCopy(live).game, move), depth - 1, -Infinity, Infinity,
                     ~isMaximizing),
             gameCopy(live), live)

\* one turn of the loop over the root moves
RootStep ==
    /\ running # 0
    /\ requests[running].pc = "searching"
    /\ requests[running].i <= Len(requests[running].newGameMoves)
    /\ RootTurn(running, requests[running],
                requests[running].newGameMoves[requests[running].i],
                searchRootMove(game, requests[running].newGameMoves[requests[running].i],
                               requests[running].depth, requests[running].isMaximizing))
    /\ UNCHANGED <<timers, microtasks, running, caller, display>>

\* the loop is over: resolve(bestMoveFound), and the task ends
Resolve ==
    /\ running # 0
    /\ LET id == running
           r  == requests[id]
       IN  /\ r.pc = "searching"
           /\ r.i > Len(r.newGameMoves)
           /\ ResolveAnalysis(id, r, r.bestMoveFound)
    /\ UNCHANGED <<game, timers, caller, display>>

\* selectMove erring when the sample equals the error rate
selectMoveInclusive(bestMoveFound, allMoves, errorRate, random1, random2) ==
    IF Len(allMoves) > 1 /\ random1 <= errorRate
    THEN LET nonBestMoves == SelectSeq(allMoves, LAMBDA m : m.san # bestMoveFound.san)
         IN  IF Len(nonBestMoves) > 0
             THEN nonBestMoves[((random2 * Len(nonBestMoves)) \div 100) + 1]
             ELSE bestMoveFound
    ELSE bestMoveFound

\* the choice findComputerMove makes between the best move and another one;
\* random1 and random2 are its two samples of Math.random()
selectMove(bestMoveFound, allMoves, errorRate, random1, random2) ==
    IF Len(allMoves) > 1 /\ random1 < errorRate
    THEN LET nonBestMoves == SelectSeq(allMoves, LAMBDA m : m.san # bestMoveFound.san)
         IN  IF Len(nonBestMoves) > 0
             THEN nonBestMoves[((random2 * Len(nonBestMoves)) \div 100) + 1]
             ELSE bestMoveFound
    ELSE bestMoveFound

\* the reaction of findComputerMove to the root search's promise
ThenCallback ==
    /\ running = 0
    /\ microtasks # <<>>
    /\ LET id == Head(microtasks)
           r  == requests[id]
           bestMoveFound == r.analysis.value
           settings == difficultySettings[r.difficulty]
       IN  IF bestMoveFound = Null
           THEN requests' = [requests EXCEPT ![id] =
                                [r EXCEPT !.pc = "settled", !.promise = Resolved(Null)]]
           ELSE \E random1, random2 \in RandomSamples :
                   requests' = [requests EXCEPT ![id] =
                      [r EXCEPT !.pc = "settled",
                                !.reads = @ + 1,
                                !.promise = Resolved(selectMove(bestMoveFound, moves(game),
                                               settings.errorRate, random1, random2))]]
    /\ microtasks' = Tail(microtasks)
    /\ UNCHANGED <<game, timers, running, caller, display>>

(***************************************************************************)
(* The positions the runs start from.                                      *)
(***************************************************************************)
Piece(type, color) == [type |-> type, color |-> color]

Position(board, toMove, halfmoves, arena) ==
    [board |-> board, turn |-> toMove, halfmoves |-> halfmoves, arena |-> arena,
     ep |-> NoSquare]

\* the squares of columns d and e on the rows from..to
Block(from, to) == {8 * row + col : row \in from..to, col \in 3..4}

\* a position a game can be in: one king a side, the side that has just
\* moved not in check
Playable(pos) ==
    /\ \A color \in Colors : Cardinality(KingSquares(pos, color)) = 1
    /\ ~KingAttacked(pos, Other(pos.turn))

MirrorSquare(sq) == 8 * (7 - RowOf(sq)) + ColOf(sq)

\* the colour-mirrored counterpart: every piece reflected across the
\* horizontal midline with its colour swapped, the other side to move
Mirror(pos) ==
    LET squares == DOMAIN pos.board
        at(sq) == pos.board[MirrorSquare(sq)]
    IN  [board     |-> [sq \in {MirrorSquare(s) : s \in squares} |->
                          Piece(at(sq).type, Other(at(sq).color))],
         turn      |-> Other(pos.turn),
         halfmoves |-> pos.halfmoves,
         arena     |-> {MirrorSquare(s) : s \in pos.arena},
         ep        |-> IF pos.ep = NoSquare THEN NoSquare ELSE MirrorSquare(pos.ep)]

\* the kings apart, one more piece a side
SearchPositions ==
    LET arena == Block(0, 3)
        made  == {Position((28 :> Piece("k", "w")) @@ (3 :> Piece("k", "b"))
                             @@ (ws :> Piece(wt, "w")) @@ (bs :> Piece(bt, "b")),
                           toMove, 0, arena) :
                     wt \in {"p", "n", "q"}, ws \in {11, 19, 27},
                     bt \in {"p", "n", "r"}, bs \in {4, 12, 20},
                     toMove \in Colors}
    IN  {pos \in made : Playable(pos)}

\* nothing requested, nothing evaluated
Idle ==
    /\ requests = <<>>
    /\ timers = <<>>
    /\ microtasks = <<>>
    /\ running = 0
    /\ display = Null

AllDepths == 0..3

\* the names of the table and one it does not hold
AllDifficulties == DOMAIN difficultySettings \cup {"grandmaster"}

\* one request of any kind on any of the search positions
InitSearch ==
    /\ \E pos \in SearchPositions : game = Chess(pos)
    /\ Idle
    /\ caller = [steps |-> 1, depths |-> AllDepths, difficulties |-> AllDifficulties]

NextSearch ==
    \/ RequestAnalysis
    \/ RequestComputer
    \/ TimerFire
    \/ RootStep
    \/ Resolve
    \/ ThenCallback

SpecSearch == InitSearch /\ [][NextSearch]_vars

\* the guards of TimerFire, RootStep and ThenCallback: each of the three, once
\* its guard holds, has a next state and changes the state
TimerFireEnabled == running = 0 /\ microtasks = <<>> /\ timers # <<>>

RootStepEnabled ==
    /\ running # 0
    /\ requests[running].pc = "searching"
    /\ requests[running].i <= Len(requests[running].newGameMoves)

ThenCallbackEnabled == running = 0 /\ microtasks # <<>>

\* the event loop runs the timer callbacks and promise reactions that wait,
\* and a callback that has started goes on to its end: weak fairness of the
\* four steps, that of TimerFire, RootStep and ThenCallback written out with
\* the guard in the place of ENABLED
SpecSearchFair ==
    /\ SpecSearch
    /\ ([]<>(~TimerFireEnabled) \/ []<><<TimerFire>>_vars)
    /\ ([]<>(~RootStepEnabled) \/ []<><<RootStep>>_vars)
    /\ WF_vars(Resolve)
    /\ ([]<>(~ThenCallbackEnabled) \/ []<><<ThenCallback>>_vars)

\* the positions of the runs in which the caller goes on playing: a knight
\* a side
LivePositions ==
    {pos \in SearchPositions :
        /\ PieceAt(pos, 19) = Piece("n", "w")
        /\ PieceAt(pos, 12) = Piece("n", "b")}

\* several requests, the caller playing and taking back moves in between
Init ==
    /\ \E pos \in LivePositions : game = Chess(pos)
    /\ Idle
    /\ caller = [steps |-> MaxCallerSteps, depths |-> {2},
                 difficulties |-> {"beginner", "grandmaster"}]

Next ==
    \/ RequestAnalysis
    \/ RequestComputer
    \/ CallerMove
    \/ CallerUndo
    \/ TimerFire
    \/ RootStep
    \/ Resolve
    \/ ThenCallback

Spec == Init /\ [][Next]_vars

(***************************************************************************)
(* The evaluator on its own: the caller asks for the evaluation of a       *)
(* position and of its mirror image.                                       *)
(***************************************************************************)
\* the kings on e1 and e8 and one more piece anywhere
OnePiecePositions ==
    LET made == {Position((60 :> Piece("k", "w")) @@ (4 :> Piece("k", "b"))
                             @@ (sq :> Piece(type, color)),
                           toMove, 0, Block(0, 7)) :
                     sq \in Squares \ {4, 60}, type \in PieceTypes \ {"k"},
                     color \in Colors, toMove \in Colors}
    IN  {pos \in made : Playable(pos)}

\* the black king mated in the corner by queen and king, a queen and a rook
\* against the bare king, a knight and a pawn against the bare king, bare
\* kings; with their mirror images, and with the half-move clock at and below
\* the fifty-move limit
SpecialPositions ==
    LET mate   == (0 :> Piece("k", "b")) @@ (9 :> Piece("q", "w")) @@ (17 :> Piece("k", "w"))
        heavy  == (4 :> Piece("k", "b")) @@ (60 :> Piece("k", "w"))
                     @@ (59 :> Piece("q", "w")) @@ (63 :> Piece("r", "w"))
        minor  == (4 :> Piece("k", "b")) @@ (60 :> Piece("k", "w"))
                     @@ (51 :> Piece("n", "w")) @@ (43 :> Piece("p", "w"))
        bare   == (4 :> Piece("k", "b")) @@ (60 :> Piece("k", "w"))
        made   == {Position(board, "b", halfmoves, Block(0, 7) \cup {0, 1, 8, 9, 17}) :
                      board \in {mate, heavy, minor, bare}, halfmoves \in {0, 99, 100}}
    IN  made \cup {Mirror(pos) : pos \in made}

EvalPositions == {pos \in OnePiecePositions \cup SpecialPositions : Playable(pos)}

EvaluateBoard ==
    /\ caller.steps > 0
    /\ caller' = [caller EXCEPT !.steps = @ - 1]
    /\ display' = [of |-> "evaluateBoard", on |-> fen(game), value |-> evaluateBoard(game)]
    /\ UNCHANGED <<game, requests, timers, microtasks, running>>

EvaluateMirror ==
    /\ caller.steps > 0
    /\ caller' = [caller EXCEPT !.steps = @ - 1]
    /\ display' = [of |-> "evaluateBoard", on |-> Mirror(fen(game)),
                   value |-> evaluateBoard(Chess(Mirror(fen(game))))]
    /\ UNCHANGED <<game, requests, timers, microtasks, running>>

GetEvaluation ==
    /\ caller.steps > 0
    /\ caller' = [caller EXCEPT !.steps = @ - 1]
    /\ display' = [of |-> "getEvaluation", on |-> fen(game), value |-> getEvaluation(game)]
    /\ UNCHANGED <<game, requests, timers, microtasks, running>>

InitEval ==
    /\ \E pos \in EvalPositions : game = Chess(pos)
    /\ Idle
    /\ caller = [steps |-> 1, depths |-> {}, difficulties |-> {}]

NextEval ==
    \/ EvaluateBoard
    \/ EvaluateMirror
    \/ GetEvaluation

SpecEval == InitEval /\ [][NextEval]_vars

(***************************************************************************)
(* minimax and quiescence on their own: the caller calls one of them on a  *)
(* position, with a window and, for minimax, a depth.                      *)
(***************************************************************************)
\* a pawn a side next to one another in Block(0, 4), the black one having
\* just made its double step, or about to make it; with their mirror images
PassingPositions ==
    LET arena       == Block(0, 4)
        stepped(wk) == (wk :> Piece("k", "w")) @@ (3 :> Piece("k", "b"))
                          @@ (27 :> Piece("p", "w")) @@ (28 :> Piece("p", "b"))
        before(wk)  == (wk :> Piece("k", "w")) @@ (3 :> Piece("k", "b"))
                          @@ (27 :> Piece("p", "w")) @@ (12 :> Piece("p", "b"))
        made        == {[Position(stepped(wk), "w", 0, arena) EXCEPT !.ep = 20] :
                           wk \in {35, 36}}
                       \cup {Position(before(wk), "b", 0, arena) : wk \in {35, 36}}
    IN  {pos \in made \cup {Mirror(p) : p \in made} : Playable(pos)}

\* the positions of SearchPositions with the half-move clock one move from
\* the fifty-move limit, and at it
DrawnPositions ==
    {[pos EXCEPT !.halfmoves = halfmoves] :
        pos \in SearchPositions, halfmoves \in {99, 100}}

CallPositions == SearchPositions \cup PassingPositions \cup DrawnPositions

\* the values alpha and beta are taken from
Windows == {-Infinity, -300, 0, 300, Infinity}

\* quiescence(game, alpha, beta, isMaximizingPlayer) has returned
quiescenceShown(alpha, beta, isMaximizingPlayer, r) ==
    /\ display' = [of |-> "quiescence", on |-> fen(game), depth |-> 0,
                   alpha |-> alpha, beta |-> beta,
                   isMaximizingPlayer |-> isMaximizingPlayer,
                   value |-> r.value, calls |-> r.calls]
    /\ game' = r.game

\* minimax(game, depth, alpha, beta, isMaximizingPlayer) has returned
minimaxShown(depth, alpha, beta, isMaximizingPlayer, r) ==
    /\ display' = [of |-> "minimax", on |-> fen(game), depth |-> depth,
                   alpha |-> alpha, beta |-> beta,
                   isMaximizingPlayer |-> isMaximizingPlayer,
                   value |-> r.value, calls |-> r.calls]
    /\ game' = r.game

\* quiescence called as minimax calls it, the side to move that of the flag
CallQuiescence ==
    /\ caller.steps > 0
    /\ caller' = [caller EXCEPT !.steps = @ - 1]
    /\ \E alpha, beta \in Windows :
          /\ alpha <= beta
          /\ quiescenceShown(alpha, beta, turn(game) = "w",
                             quiescence(game, alpha, beta, turn(game) = "w"))
    /\ UNCHANGED <<requests, timers, microtasks, running>>

\* minimax called as the root search and minimax call it
CallMinimax ==
    /\ caller.steps > 0
    /\ caller' = [caller EXCEPT !.steps = @ - 1]
    /\ \E depth \in caller.depths, alpha, beta \in Windows :
          /\ alpha < beta
          /\ minimaxShown(depth, alpha, beta, turn(game) = "w",
                          minimax(game, depth, alpha, beta, turn(game) = "w"))
    /\ UNCHANGED <<requests, timers, microtasks, running>>

InitCall ==
    /\ \E pos \in CallPositions : game = Chess(pos)
    /\ Idle
    /\ caller = [steps |-> 1, depths |-> 0..2, difficulties |-> {}]

NextCall ==
    \/ CallQuiescence
    \/ CallMinimax

SpecCall == InitCall /\ [][NextCall]_vars

(***************************************************************************)
(* Properties of the root search, checked under SpecSearch.                *)
(***************************************************************************)
\* the root search of the request has resolved with a move
Chosen(r) == r.analysis.state = "resolved" /\ r.analysis.value # Null

\* the place of the resolved move among the root moves
ChosenIndex(r) ==
    CHOOSE i \in 1..Len(r.newGameMoves) : r.newGameMoves[i] = r.analysis.value

RECURSIVE exhaustive(_, _, _)
RECURSIVE exhaustiveLoop(_, _, _, _, _, _)

\* the best of `best` and the exhaustive values of the moves all[i..]
exhaustiveLoop(g, all, i, depth, isMaximizingPlayer, best) ==
    IF i > Len(all) THEN best
    ELSE exhaustiveLoop(g, all, i + 1, depth, isMaximizingPlayer,
             IF isMaximizingPlayer
             THEN Max(best, exhaustive(Move(g, all[i]), depth - 1, FALSE))
             ELSE Min(best, exhaustive(Move(g, all[i]), depth - 1, TRUE)))

\* minimax without a window: every move of every node is searched, in
\* generation order, and a leaf is worth what quiescence finds for it with
\* nothing to cut against
exhaustive(g, depth, isMaximizingPlayer) ==
    IF depth = 0 \/ isGameOver(g)
    THEN quiescence(g, -Infinity, Infinity, isMaximizingPlayer).value
    ELSE exhaustiveLoop(g, moves(g), 1, depth, isMaximizingPlayer,
                        IF isMaximizingPlayer THEN -Infinity ELSE Infinity)

\* the value the exhaustive search gives its best root move
exhaustiveBest(r) ==
    exhaustiveLoop(Chess(r.searchedOn), r.newGameMoves, 1, r.depth, r.isMaximizing,
                   IF r.isMaximizing THEN -Infinity ELSE Infinity)

\* C1: at every depth from 1 to 3 the value the alpha-beta search gave the
\* root move it resolved with is the value an exhaustive minimax of the same
\* depth, with the same leaves and no pruning, gives its best root move.
C1_PruningKeepsValue ==
    \A id \in DOMAIN requests :
        (Chosen(requests[id]) /\ requests[id].depth \in 1..3)
            => requests[id].boardValues[ChosenIndex(requests[id])]
                  = exhaustiveBest(requests[id])

\* a search of depth 3 that broke out of a loop of minimax and returned from
\* inside a loop of quiescence has resolved with a move of a finite value
C1_Witness ==
    \E id \in DOMAIN requests :
        /\ Chosen(requests[id])
        /\ requests[id].depth = 3
        /\ requests[id].calls.pruned
        /\ requests[id].calls.cutoff
        /\ requests[id].bestValue \notin {-Infinity, 0, Infinity}
        /\ requests[id].bestValue = exhaustiveBest(requests[id])

\* C2: every call of minimax and of quiescence the root search has made,
\* whether it ran its loop to the end, returned on a cutoff or broke out on
\* pruning, handed back the Chess object exactly as it was given it.
C2_CallsRestorePosition ==
    \A id \in DOMAIN requests : requests[id].calls.restored

\* a search that applied several moves, returned from inside a loop of
\* quiescence and broke out of a loop of minimax, each call leaving its
\* position as it found it
C2_Witness ==
    \E id \in DOMAIN requests :
        /\ Chosen(requests[id])
        /\ requests[id].calls.applied > 3
        /\ requests[id].calls.cutoff
        /\ requests[id].calls.pruned
        /\ requests[id].calls.restored

\* the best of the values: the greatest for White, the least for Black
BestOf(values, isMaximizing) ==
    CHOOSE v \in {values[i] : i \in DOMAIN values} :
        \A i \in DOMAIN values :
            IF isMaximizing THEN values[i] <= v ELSE values[i] >= v

\* the first place the value holds in the sequence
FirstIndex(values, v) ==
    CHOOSE i \in DOMAIN values : values[i] = v /\ \A j \in 1..(i - 1) : values[j] # v

\* C3: the root search resolves with the first root move, in generation
\* order, whose value is the greatest of the root values when White is to
\* move and the least when Black is: a tie goes to the earliest move.
C3_FirstBestMoveWins ==
    \A id \in DOMAIN requests :
        Chosen(requests[id])
            => requests[id].analysis.value
                  = requests[id].newGameMoves[
                        FirstIndex(requests[id].boardValues,
                                   BestOf(requests[id].boardValues,
                                          requests[id].isMaximizing))]

\* a search has resolved with an earlier root move although a later one has
\* the same, best, value
C3_Witness ==
    \E id \in DOMAIN requests :
        /\ Chosen(requests[id])
        /\ \E j \in (ChosenIndex(requests[id]) + 1)..Len(requests[id].boardValues) :
              requests[id].boardValues[j]
                  = BestOf(requests[id].boardValues, requests[id].isMaximizing)
        /\ requests[id].boardValues[ChosenIndex(requests[id])]
              = BestOf(requests[id].boardValues, requests[id].isMaximizing)

\* the request is a findComputerMove whose root search found a best move on
\* a position with at least two legal moves
Choosing(r) ==
    r.kind = "computer" /\ Chosen(r) /\ Len(r.newGameMoves) >= 2

\* the move is one of the moves
AmongMoves(m, all) == \E i \in 1..Len(all) : all[i] = m

\* C4: with at least two legal moves and whatever the random samples, an
\* error rate of 1 makes findComputerMove return a legal move other than the
\* best move, and an error rate of 0 makes it return the best move; the
\* request of a difficulty whose error rate is 0 settles with the best move.
C4_ErrorRateExtremes ==
    \A id \in DOMAIN requests :
        Choosing(requests[id]) =>
            /\ \A random1, random2 \in RandomSamples :
                  /\ selectMove(requests[id].analysis.value, requests[id].newGameMoves,
                                100, random1, random2) # requests[id].analysis.value
                  /\ AmongMoves(selectMove(requests[id].analysis.value,
                                           requests[id].newGameMoves,
                                           100, random1, random2),
                                requests[id].newGameMoves)
                  /\ selectMove(requests[id].analysis.value, requests[id].newGameMoves,
                                0, random1, random2) = requests[id].analysis.value
            /\ (/\ requests[id].promise.state = "resolved"
                /\ difficultySettings[requests[id].difficulty].errorRate = 0)
                  => requests[id].promise.value = requests[id].analysis.value

\* a request of the difficulty whose error rate is 0 has settled with the
\* best of three or more legal moves
C4_Witness ==
    \E id \in DOMAIN requests :
        /\ Choosing(requests[id])
        /\ Len(requests[id].newGameMoves) >= 3
        /\ requests[id].difficulty = "master"
        /\ requests[id].promise = Resolved(requests[id].analysis.value)

\* C5: findBestMoveForAnalysis and findComputerMove resolve with null exactly
\* when the position they searched has no legal move, and with one of its
\* legal moves otherwise.
C5_NullIffNoLegalMove ==
    \A id \in DOMAIN requests :
        /\ requests[id].analysis.state = "resolved" =>
              IF moves(Chess(requests[id].searchedOn)) = <<>>
              THEN requests[id].analysis.value = Null
              ELSE AmongMoves(requests[id].analysis.value,
                              moves(Chess(requests[id].searchedOn)))
        /\ requests[id].promise.state = "resolved" =>
              IF moves(Chess(requests[id].searchedOn)) = <<>>
              THEN requests[id].promise.value = Null
              ELSE AmongMoves(requests[id].promise.value,
                              moves(Chess(requests[id].searchedOn)))

\* a findComputerMove on a position without a legal move has resolved with
\* null
C5_Witness ==
    \E id \in DOMAIN requests :
        /\ requests[id].kind = "computer"
        /\ requests[id].promise = Resolved(Null)
        /\ moves(Chess(requests[id].askedOn)) = <<>>

\* C9: whatever depth >= 0 the root search is given, minimax is never called
\* with a negative remaining depth, and a search never goes on without a
\* depth bound.
C9_DepthNeverNegative ==
    \A id \in DOMAIN requests :
        requests[id].depth >= 0
            => requests[id].calls.minDepth >= 0 /\ ~requests[id].calls.runaway

(***************************************************************************)
(* Properties of the evaluator, checked under SpecEval.                    *)
(***************************************************************************)
\* evaluateBoard has been asked for the value of the position
Evaluated(pos) ==
    display # Null /\ display.of = "evaluateBoard" /\ display.on = pos

\* C6: a position that is not terminal and its colour-mirrored counterpart
\* have opposite evaluations.
C6_MirrorNegatesEvaluation ==
    (/\ Evaluated(Mirror(fen(game)))
     /\ ~isGameOver(game)
     /\ ~isGameOver(Chess(Mirror(fen(game)))))
        => display.value = -evaluateBoard(game)

\* C7: a checkmate evaluates to -Infinity when White is to move, and so
\* mated, and to Infinity when Black is, whatever stands on the board and
\* also when the position counts as a draw.
C7_CheckmateSentinel ==
    (display # Null /\ display.of = "evaluateBoard" /\ isCheckmate(Chess(display.on)))
        => display.value = (IF display.on.turn = "w" THEN -Infinity ELSE Infinity)

\* White, to move, is mated with the half-move clock at the fifty-move limit,
\* and the position has been given White's sentinel
C7_Witness ==
    /\ Evaluated(fen(game))
    /\ isCheckmate(game) /\ isDraw(game)
    /\ turn(game) = "w"
    /\ game.pos.halfmoves >= 100
    /\ display.value = -Infinity

\* C8, as the code has it: the position in which White has just given mate,
\* Black to move and mated, evaluates to Infinity, and its mirror image, in
\* which Black has just given mate, to -Infinity.
C8_MatedBlackIsPositive ==
    (isCheckmate(game) /\ turn(game) = "b") =>
        /\ Evaluated(fen(game)) => display.value = Infinity
        /\ Evaluated(Mirror(fen(game))) => display.value = -Infinity

\* C8, as stated: the position in which White has just given mate evaluates
\* to -Infinity, and its mirror image to Infinity.
C8_MatedBlackIsNegative ==
    (isCheckmate(game) /\ turn(game) = "b") =>
        /\ Evaluated(fen(game)) => display.value = -Infinity
        /\ Evaluated(Mirror(fen(game))) => display.value = Infinity

\* the mirror image of a position in which Black is mated has been evaluated
\* to -Infinity
C8_Witness ==
    /\ isCheckmate(game) /\ turn(game) = "b"
    /\ Evaluated(Mirror(fen(game)))
    /\ Mirror(fen(game)) # fen(game)
    /\ display.value = -Infinity

\* getEvaluation has been called on the position of the game
Shown == display # Null /\ display.of = "getEvaluation" /\ display.on = fen(game)

\* C13: getEvaluation, in hundredths of a pawn, lies between -1000 and 1000;
\* it is the evaluation itself when that lies in the range, 1000 or -1000
\* when the evaluation lies above or below it, and 1000 or -1000 for the
\* checkmate sentinel Infinity or -Infinity.
C13_EvaluationClamped ==
    Shown =>
        /\ display.value \in -1000..1000
        /\ evaluateBoard(game) \in -1000..1000 => display.value = evaluateBoard(game)
        /\ evaluateBoard(game) > 1000 => display.value = 1000
        /\ evaluateBoard(game) < -1000 => display.value = -1000
        /\ evaluateBoard(game) = Infinity => display.value = 1000
        /\ evaluateBoard(game) = -Infinity => display.value = -1000

\* queen and rook down against the bare king, not mated: the evaluation lies
\* below the range and -1000 is shown
C13_Witness ==
    /\ Shown
    /\ ~isGameOver(game)
    /\ evaluateBoard(game) < -1000
    /\ display.value = -1000

(***************************************************************************)
(* The maximizing flag of the calls a root search makes, checked under     *)
(* SpecSearch.                                                             *)
(***************************************************************************)
\* C19: in every call of minimax and of quiescence that a root search has
\* made, the maximizing flag was true when White was to move in the position
\* of the call and false when Black was; the root's own flag is so too.
C19_FlagIsWhiteToMove ==
    \A id \in DOMAIN requests :
        /\ requests[id].calls.sideOk
        /\ requests[id].searchedOn # Null /\ requests[id].newGameMoves # <<>> =>
               (requests[id].isMaximizing <=> requests[id].searchedOn.turn = "w")

\* a root search with Black to move has come to its end, having gone through
\* minimax into the captures of quiescence
C19_Witness ==
    \E id \in DOMAIN requests :
        /\ Chosen(requests[id])
        /\ requests[id].searchedOn.turn = "b"
        /\ requests[id].depth >= 2
        /\ requests[id].calls.minDepth = 0
        /\ requests[id].calls.chain >= 1
        /\ requests[id].calls.sideOk

(***************************************************************************)
(* Properties of the calls of quiescence and minimax, checked under        *)
(* SpecCall.                                                               *)
(***************************************************************************)
Clamp(value, alpha, beta) == Max(alpha, Min(beta, value))

\* the legal moves of the position that take a man
Taking(g) == {moves(g)[n] : n \in {k \in 1..Len(moves(g)) : moves(g)[k].captured # None}}

RECURSIVE captureTreeValue(_, _)
\* the minimax value of the tree in which the side to move stands pat on
\* the static evaluation or goes on with a move that takes a man
captureTreeValue(g, isMaximizingPlayer) ==
    LET below == {captureTreeValue(Move(g, m), ~isMaximizingPlayer) : m \in Taking(g)}
                    \cup {evaluateBoard(g)}
    IN  IF isMaximizingPlayer
        THEN CHOOSE v \in below : \A w \in below : w <= v
        ELSE CHOOSE v \in below : \A w \in below : v <= w

QuiescenceCalled == display # Null /\ display.of = "quiescence"

\* C15: quiescence returns the minimax value of the tree of captures with the
\* option to stand pat, clamped to the window it was called with: the value
\* itself with the full window.
C15_QuiescenceIsCaptureTreeValue ==
    QuiescenceCalled =>
        display.value = Clamp(captureTreeValue(Chess(display.on), display.isMaximizingPlayer),
                              display.alpha, display.beta)

MinimaxCalled == display # Null /\ display.of = "minimax"

\* C16: minimax called on a position that is game over applies no move and
\* returns the static evaluation of the position, the mate sentinel or 0,
\* clamped to the window, whether or not the position has legal captures.
C16_GameOverIsNotSearched ==
    (MinimaxCalled /\ isGameOver(Chess(display.on))) =>
        /\ display.calls.applied = 0
        /\ display.value = Clamp(evaluateBoard(Chess(display.on)),
                                 display.alpha, display.beta)

\* C17: in every call of quiescence the moves of the loop are the legal
\* moves that take a man, be it by an ordinary capture, a capturing
\* promotion or en passant, and no move that takes nothing is among them.
C17_LoopOverEveryCapture ==
    (QuiescenceCalled \/ MinimaxCalled) =>
        ~display.calls.skipped /\ ~display.calls.quiet

(***************************************************************************)
(* Properties of the requests on the event loop, checked under Spec.       *)
(***************************************************************************)
\* the request is a findComputerMove with a name the difficulty table does
\* not hold
Misnamed(r) == r.kind = "computer" /\ r.difficulty \notin DOMAIN difficultySettings

\* the request waits among the timers or the microtasks, or is running
Queued(id) ==
    \/ \E n \in 1..Len(timers) : timers[n] = id
    \/ \E n \in 1..Len(microtasks) : microtasks[n] = id
    \/ running = id

LegalOn(move, pos) ==
    \E n \in 1..Len(moves(Chess(pos))) : moves(Chess(pos))[n] = move

\* C18: a move that findBestMoveForAnalysis or findComputerMove resolves
\* with is a legal move of the position the game was in when the request was
\* made, whatever the caller has played or taken back since.
C18_MoveLegalWhereAsked ==
    \A id \in DOMAIN requests :
        /\ Chosen(requests[id]) =>
               LegalOn(requests[id].analysis.value, requests[id].askedOn)
        /\ (requests[id].promise.state = "resolved" /\ requests[id].promise.value # Null) =>
               LegalOn(requests[id].promise.value, requests[id].askedOn)

(***************************************************************************)
(* More properties of the requests.                                        *)
(***************************************************************************)
\* the request has read the position and its promise is not settled yet
InFlight(r) == r.reads > 0 /\ r.promise.state = "pending"

\* the number of times the request waits among the timers
Deferred(id) == Cardinality({k \in DOMAIN timers : timers[k] = id})

\* C10: a request is deferred once, before it has read anything of the
\* position, and from its first read of the position until its promise is
\* settled every step is a step of that request: the caller does nothing, no
\* other request is made, started or changed, and the position is not moved.
C10_OneSuspensionPoint ==
    [][\A id \in DOMAIN requests :
          /\ Deferred(id) = (IF requests[id].pc = "scheduled" THEN 1 ELSE 0)
          /\ requests[id].pc = "scheduled"
                => requests[id].reads = 0 /\ requests[id].newGameMoves = <<>>
          /\ InFlight(requests[id])
                => /\ game' = game
                   /\ caller' = caller
                   /\ timers' = timers
                   /\ DOMAIN requests' = DOMAIN requests
                   /\ \A other \in DOMAIN requests \ {id} :
                         requests'[other] = requests[other]]_vars

\* one request is in the middle of its search while another request waits
\* for its timer and the caller has something left to do
C10_Witness ==
    \E id, other \in DOMAIN requests :
        /\ InFlight(requests[id])
        /\ requests[id].i > 1
        /\ requests[id].pc = "searching"
        /\ requests[other].pc = "scheduled"
        /\ caller.steps > 0

\* the value minimax gives the i-th root move of the request when nothing
\* but that move has been played on the position the request searched
valueOnItsOwn(r, i) ==
    minimax(Move(Chess(r.searchedOn), r.newGameMoves[i]), r.depth - 1,
            -Infinity, Infinity, ~r.isMaximizing).value

\* C11: the root search never applies or undoes a move on the caller's live
\* position, which is the same object with the same moves played from the
\* first root move to the resolution, and the value it records for a root
\* move is the value of that move searched on its own, whatever was searched
\* before it.
C11_RootMovesOnFreshCopies ==
    [][\A id \in DOMAIN requests :
          /\ requests[id].pc = "searching" => game' = game
          /\ \A i \in 1..Len(requests'[id].boardValues) :
                i > Len(requests[id].boardValues)
                    => requests'[id].boardValues[i] = valueOnItsOwn(requests'[id], i)]_vars

\* a search of several root moves has resolved on a live position the
\* caller had played a move on, which is still as it was
C11_Witness ==
    \E id \in DOMAIN requests :
        /\ Chosen(requests[id])
        /\ Len(requests[id].boardValues) >= 2
        /\ requests[id].calls.applied > 0
        /\ game.hist # <<>>
        /\ fen(game) = requests[id].searchedOn

(***************************************************************************)
(* Properties of the search on its way to its end, checked under           *)
(* SpecSearchFair.                                                         *)
(***************************************************************************)
\* the request is a search of depth 1 or more
Started(id) ==
    /\ id \in DOMAIN requests
    /\ requests[id].depth >= 1
    /\ requests[id].pc # "failed"

\* the search has gone below the nesting the model follows
Lost(id) == Started(id) /\ requests[id].calls.runaway

\* no chain of captures in quiescence is longer than the men that can be
\* taken, those other than the two kings
ChainBounded(id) ==
    requests[id].calls.chain <= Cardinality(DOMAIN requests[id].searchedOn.board) - 2

\* the promise of the request is resolved
Completed(id) == id \in DOMAIN requests /\ requests[id].promise.state = "resolved"

\* C12: a search of depth 1 or more never loses itself in the captures of
\* quiescence, which come to an end on every path, no chain of them being
\* longer than the men there are to take, and its promise is resolved in the
\* end.
C12_SearchRunsToCompletion ==
    /\ [](~Lost(1))
    /\ [](Started(1) /\ requests[1].searchedOn # Null => ChainBounded(1))
    /\ Started(1) ~> Completed(1)

\* a search of depth 1 or more has resolved after quiescence played two
\* captures one after the other
C12_Witness ==
    /\ Started(1)
    /\ requests[1].promise.state = "resolved"
    /\ requests[1].calls.chain >= 2

====
